---- MODULE Spec2Model ----
(***************************************************************************)
(* Software-PWM servo scheduler of the ATmega32 SERVO driver               *)
(* (HAL/SERVO/SERVO.c, SERVO_def.h): the registry servos[] / servo_count,  *)
(* the foreground API SERVO_Init, SERVO_SetAngleByID, SERVO_SetAngleByPin  *)
(* and the Timer1 compare-B handler SERVO_Interrupt.                       *)
(*                                                                         *)
(* Time is the Timer1 counter.  The counter runs freely modulo 2^16 and    *)
(* the handler runs at the instant the counter equals the compare          *)
(* register; one CompareMatch step lets the counter run up to that instant *)
(* and runs the whole handler.  Foreground calls are atomic with respect   *)
(* to the handler and happen at any instant between two matches.           *)
(***************************************************************************)
EXTENDS Integers, Sequences, FiniteSets, TLC

(* ------------------------------ constants ------------------------------ *)

SERVO_MAX_NUM == 9

SERVO_MIN_ANGLE == 0

SERVO_MAX_ANGLE == 180

SERVO_PWM_INTERVAL_US == 20000

SERVO_MIN_PULSE_US == 1000

SERVO_MAX_PULSE_US == 200

F_CPU == 8000000

TIMER1_PRESCALER == 8

\* Timer1 is a 16-bit counter: TCNT1 and OCR1B hold values modulo 2^16.
TIMER1_MODULUS == 65536

\* width of the ticks bit-field of the Servo structure, as a modulus (2^27)
TICKS_MODULUS == 134217728

INVALID_ID == 255

LOW == 0

HIGH == 1

(* -------------------------------- bounds ------------------------------- *)

\* the handler begins at most MaxFrames frames
MaxFrames == 2

\* Spec registers at most MaxChannels channels; SpecFull fills the registry
MaxChannels == 2

\* SpecFull runs the handler on the full registry, for at most MaxFullFrames frames
MaxFullFrames == 1

(* -------------------------------- inputs ------------------------------- *)

Angles == {0, 180, 181}

AngleInputs == (0 .. 181) \cup {255}

\* ids given to SERVO_SetAngleByID: the first two slots, the last slot and 0xFF
IdInputs == {0, 1, SERVO_MAX_NUM - 1, INVALID_ID}

PinSet == (0 .. 3) \X (0 .. 7)

FreshPin(k) == << k \div 8, k % 8 >>

\* the registration at index 1 may reuse the pin of channel 0
InitInputs(k) == {FreshPin(k)} \cup (IF k = 1 THEN {FreshPin(0)} ELSE {})

PinInputs == {FreshPin(0), FreshPin(1), << 3, 7 >>}

\* pins that may be HIGH before the driver is used
InitiallyHigh == {FreshPin(0), FreshPin(1)}

InitialCompare == {40000}

\* a compare value near the top of the counter's range
TopCompare == {65500}

InitialCounter == {123}

(* ----------------------------- unit conversion ------------------------- *)

\* SERVO_US_TO_TICKS for a clock of fcpu Hz and a Timer1 prescaler
UsToTicks(US, fcpu, prescaler) == (US * (fcpu \div 1000000)) \div prescaler

SERVO_US_TO_TICKS(US) == UsToTicks(US, F_CPU, TIMER1_PRESCALER)

SERVO_PWM_INTERVAL_TICKS == SERVO_US_TO_TICKS(SERVO_PWM_INTERVAL_US)

SERVO_MIN_PULSE_TICKS == SERVO_US_TO_TICKS(SERVO_MIN_PULSE_US)

SERVO_MAX_PULSE_TICKS == SERVO_US_TO_TICKS(SERVO_MAX_PULSE_US)

RECURSIVE Pow2(_)
Pow2(n) == IF n = 0 THEN 1 ELSE 2 * Pow2(n - 1)

RECURSIVE BitLen(_)
BitLen(n) == IF n = 0 THEN 0 ELSE 1 + BitLen(n \div 2)

\* mutant of FloatRound: the significand is truncated instead of rounded
FloatRound_Truncating(m, e) ==
    LET s == BitLen(m) - 24
    IN  IF s <= 0 THEN << m, e >> ELSE << m \div Pow2(s), e - s >>

\* A binary floating-point value is << m, e >>, meaning m * 2^(-e).
\* FloatRound rounds it to a 24-bit significand, ties to even.
FloatRound(m, e) ==
    LET s == BitLen(m) - 24
    IN  IF s <= 0 THEN << m, e >>
        ELSE LET q == m \div Pow2(s)
                 r == m % Pow2(s)
                 half == Pow2(s - 1)
                 up == (r > half) \/ (r = half /\ q % 2 = 1)
             IN  << IF up THEN q + 1 ELSE q, e - s >>

\* the constant 1000.0 / 180 rounded to a 24-bit significand: 11650844 * 2^-21
DegreeStep == << 11650844, 21 >>

FloatMulInt(n, f) == FloatRound(n * f[1], f[2])

FloatAddInt(n, f) ==
    IF f[2] >= 0 THEN FloatRound(n * Pow2(f[2]) + f[1], f[2])
    ELSE FloatRound(n + f[1] * Pow2(0 - f[2]), 0)

\* mutant of FloatToUint16: the result is kept in 8 bits
FloatToUint16_Byte(f) ==
    (IF f[2] >= 0 THEN f[1] \div Pow2(f[2]) ELSE f[1] * Pow2(0 - f[2])) % 256

\* SERVO.c:186  the conversion of the floating-point sum to uint16
FloatToUint16(f) ==
    (IF f[2] >= 0 THEN f[1] \div Pow2(f[2]) ELSE f[1] * Pow2(0 - f[2])) % 65536

\* mutant of AngleToMicroseconds: the minimum pulse width is not added
AngleToMicroseconds_NoOffset(angle) == FloatToUint16(FloatMulInt(angle, DegreeStep))

AngleToMicroseconds(angle) ==
    FloatToUint16(FloatAddInt(SERVO_MIN_PULSE_US, FloatMulInt(angle, DegreeStep)))

AngleToTicks(angle) == SERVO_US_TO_TICKS(AngleToMicroseconds(angle)) % TICKS_MODULUS

\* AngleToTicks of every valid angle, computed once
TicksTable ==
    { << angle, AngleToTicks(angle) >> : angle \in SERVO_MIN_ANGLE .. SERVO_MAX_ANGLE }

\* SERVO.c:186-189  the value written to the ticks field
StoredTicks(angle) ==
    IF angle \in SERVO_MIN_ANGLE .. SERVO_MAX_ANGLE
    THEN (CHOOSE t \in TicksTable : t[1] = angle)[2]
    ELSE AngleToTicks(angle)

(* --------------------------------- state ------------------------------- *)

VARIABLES
    servos,        \* servos[0..8]: [port, pin, ticks]
    servo_count,   \* number of registered channels
    servo_id,      \* the handler's static cursor
    TCNT1,         \* Timer1 counter
    OCR1B,         \* Timer1 compare-B register
    callback,      \* TRUE once SERVO_Interrupt is installed
    pinLevel,      \* output level of every port pin
    pinDir,        \* direction of every port pin
    init_ret,      \* value returned by the last SERVO_Init
    frame,         \* measurements of the frame in progress
    ev,            \* what the last handler invocation or foreground call did
    angle_in,      \* SpecConv: the angle last given to SERVO_SetAngleByID
    init_pc,       \* SERVO.c line of the next statement of a SERVO_Init call in
                   \* progress, 0 when there is none
    init_arg,      \* << port, pin >> of the SERVO_Init call in progress
    i2c,           \* the EXT_EEPROM / RTC call in progress and the I2C bus
    dht,           \* the DHT11_Read call in progress
    line           \* level of the DHT11 data line

vars == << servos, servo_count, servo_id, TCNT1, OCR1B, callback,
           pinLevel, pinDir, init_ret, frame, ev, angle_in,
           init_pc, init_arg, i2c, dht, line >>

\* the variables of the other drivers and of a SERVO_Init call taken statement by
\* statement
elsewhere == << init_pc, init_arg, i2c, dht, line >>

NoTransfer ==
    [ op |-> "none", pc |-> 0, size |-> 0, index |-> 0, started |-> FALSE,
      ret |-> "none", acks |-> 0, nacks |-> 0, outside |-> FALSE ]

NoRead == [ pc |-> 0, timeout |-> 0, bits |-> 0, diff |-> 0, status |-> 0, returned |-> FALSE ]

registry == << servos, servo_count >>

hardware == << TCNT1, OCR1B, callback, pinLevel, pinDir >>

PinOf(i) == << servos[i].port, servos[i].pin >>

NoEvent ==
    [ kind |-> "none", port |-> 0, pin |-> 0, idOK |-> FALSE, angleOK |-> FALSE, fell |-> FALSE, width |-> 0, expect |-> 0,
      rose |-> FALSE, riseAt |-> 0, sumBefore |-> 0,
      len |-> 0, count |-> 0, static |-> FALSE, armed |-> FALSE, gaps |-> 0,
      rises |-> [i \in 0 .. SERVO_MAX_NUM - 1 |-> 0],
      edges |-> [i \in 0 .. SERVO_MAX_NUM - 1 |-> 0],
      skipped |-> [i \in 0 .. SERVO_MAX_NUM - 1 |-> FALSE] ]

NewFrame(count) ==
    [ started |-> TRUE, elapsed |-> 0, pulseSum |-> 0, riseTicks |-> 0,
      count |-> count, static |-> TRUE, no |-> 0, gaps |-> 0,
      rises |-> [i \in 0 .. SERVO_MAX_NUM - 1 |-> 0],
      edges |-> [i \in 0 .. SERVO_MAX_NUM - 1 |-> 0],
      skipped |-> [i \in 0 .. SERVO_MAX_NUM - 1 |-> FALSE] ]

\* the state before the first driver call, with the compare register holding one
\* of the given values
InitWith(compares) ==
    /\ servos = [i \in 0 .. SERVO_MAX_NUM - 1 |-> [port |-> 0, pin |-> 0, ticks |-> 0]]
    /\ servo_count = 0
    /\ servo_id = 255
    /\ TCNT1 \in InitialCounter
    /\ OCR1B \in compares
    /\ callback = FALSE
    /\ pinLevel \in {[p \in PinSet |-> LOW],
                    [p \in PinSet |-> IF p \in InitiallyHigh THEN HIGH ELSE LOW]}
    /\ pinDir = [p \in PinSet |-> "INPUT"]
    /\ init_ret = INVALID_ID
    /\ frame = [NewFrame(0) EXCEPT !.started = FALSE]
    /\ ev = NoEvent
    /\ angle_in = 0
    /\ init_pc = 0
    /\ init_arg = << 0, 0 >>
    /\ i2c = NoTransfer
    /\ dht = NoRead
    /\ line = HIGH

Init == InitWith(InitialCompare)


(* ------------------------ Timer1 compare-B handler --------------------- *)

\* ticks the free-running counter needs to reach the compare value; a match at
\* the current value has just been served, the next one is a full turn away
TicksToMatch(counter, compare) ==
    ((compare - counter - 1 + TIMER1_MODULUS) % TIMER1_MODULUS) + 1

\* SERVO.c:64  if ( servo_id < servo_count )
PulseInProgress(id, count) == id < count

\* mutant of CursorAfter: the cursor is not advanced when a pulse ends
CursorAfter_Stuck(id, count) == IF PulseInProgress(id, count) THEN id ELSE 0

\* mutant of CursorAfter: the cursor advances by two
CursorAfter_SkipsOne(id, count) ==
    IF PulseInProgress(id, count) THEN (id + 2) % 256 ELSE 0

\* SERVO.c:70 and 78  servo_id++  /  servo_id = 0
CursorAfter(id, count) == IF PulseInProgress(id, count) THEN (id + 1) % 256 ELSE 0

\* mutant of CounterAfter: the new-frame branch leaves the counter running
CounterAfter_NoReset(id, count, now) == now

\* SERVO.c:75  the counter is reset only in the new-frame branch
CounterAfter(id, count, now) == IF PulseInProgress(id, count) THEN now ELSE 0

\* mutant of PulseWanted: a pulse of the minimum width is not started
PulseWanted_AboveMin(ticks) == ticks > SERVO_MIN_PULSE_TICKS

\* SERVO.c:86  if ( servos[ servo_id ].ticks > 0 )
PulseWanted(ticks) == ticks > 0

\* mutant of PulseCompare: the falling edge is armed one tick early
PulseCompare_Early(now, ticks) == (now + ticks - 1) % TIMER1_MODULUS

\* SERVO.c:89  TIMER1_GetTimerValue() + servos[ servo_id ].ticks, as uint16
PulseCompare(now, ticks) == (now + ticks) % TIMER1_MODULUS

\* SERVO.c:98-107  compare value once every channel has been processed
FrameCompare(now) ==
    IF (now + 50) % TIMER1_MODULUS < SERVO_PWM_INTERVAL_TICKS
    THEN SERVO_PWM_INTERVAL_TICKS % TIMER1_MODULUS
    ELSE (now + 20) % TIMER1_MODULUS

SamePin(i, j) == PinOf(i) = PinOf(j)

\* SERVO.c:56-109  what one handler invocation does to the cursor, the timer
\* registers and the pins
HandlerRegisters ==
    LET now     == OCR1B
        ending  == PulseInProgress(servo_id, servo_count)
        id1     == CursorAfter(servo_id, servo_count)
        t1      == CounterAfter(servo_id, servo_count, now)
        lowered == IF ending
                   THEN [pinLevel EXCEPT ![PinOf(servo_id)] = LOW]
                   ELSE pinLevel
        inRange == id1 < servo_count
        ticks   == IF inRange THEN servos[id1].ticks ELSE 0
        rising  == inRange /\ PulseWanted(ticks)
    IN  /\ servo_id' = id1
        /\ TCNT1' = t1
        /\ OCR1B' = IF inRange
                    THEN (IF rising THEN PulseCompare(t1, ticks) ELSE OCR1B)
                    ELSE FrameCompare(t1)
        /\ pinLevel' = IF rising THEN [lowered EXCEPT ![PinOf(id1)] = HIGH] ELSE lowered
        /\ UNCHANGED << servos, servo_count, callback, pinDir, init_ret >>

SERVO_Interrupt(e) ==
    LET now     == OCR1B
        ending  == PulseInProgress(servo_id, servo_count)
        id1     == CursorAfter(servo_id, servo_count)
        t1      == CounterAfter(servo_id, servo_count, now)
        lowered == IF ending
                   THEN [pinLevel EXCEPT ![PinOf(servo_id)] = LOW]
                   ELSE pinLevel
        inRange == id1 < servo_count
        ticks   == IF inRange THEN servos[id1].ticks ELSE 0
        rising  == inRange /\ PulseWanted(ticks)
        fr0     == IF ending
                   THEN [frame EXCEPT !.elapsed = @ + e]
                   ELSE [NewFrame(servo_count) EXCEPT !.no = frame.no + 1]
        edge    == rising /\ lowered[PinOf(id1)] = LOW
        fr1     == [fr0 EXCEPT
                      !.pulseSum  = IF rising THEN @ + ticks ELSE @,
                      !.riseTicks = IF rising THEN ticks ELSE 0,
                      !.gaps      = IF inRange THEN @ ELSE @ + 1,
                      !.rises     = [i \in 0 .. SERVO_MAX_NUM - 1 |->
                                       IF rising /\ i = id1 THEN @[i] + 1 ELSE @[i]],
                      !.edges     = [i \in 0 .. SERVO_MAX_NUM - 1 |->
                                       IF edge /\ i < servo_count /\ SamePin(i, id1)
                                       THEN @[i] + 1 ELSE @[i]],
                      !.skipped   = [i \in 0 .. SERVO_MAX_NUM - 1 |->
                                       IF inRange /\ ~rising /\ i = id1
                                       THEN TRUE ELSE @[i]]]
    IN  /\ HandlerRegisters
        /\ frame' = fr1
        /\ ev' = [ kind      |-> IF ending THEN "pulse-end"
                                 ELSE IF frame.started THEN "new-frame" ELSE "first",
                   port      |-> 0,
                   pin       |-> 0,
                   idOK      |-> FALSE,
                   angleOK   |-> FALSE,
                   fell      |-> ending /\ pinLevel[PinOf(servo_id)] = HIGH,
                   width     |-> e,
                   expect    |-> frame.riseTicks,
                   rose      |-> rising,
                   riseAt    |-> fr0.elapsed,
                   sumBefore |-> fr0.pulseSum,
                   len       |-> IF ending THEN 0 ELSE frame.elapsed + e,
                   count     |-> IF ending THEN 0 ELSE frame.count,
                   static    |-> ~ending /\ frame.static,
                   armed     |-> rising \/ ~inRange,
                   gaps      |-> IF ending THEN 0 ELSE frame.gaps,
                   rises     |-> IF ending THEN NoEvent.rises ELSE frame.rises,
                   edges     |-> IF ending THEN NoEvent.edges ELSE frame.edges,
                   skipped   |-> IF ending THEN NoEvent.skipped ELSE frame.skipped ]

\* the counter reaches the compare register and the installed handler runs
CompareMatch ==
    /\ callback
    /\ SERVO_Interrupt(TicksToMatch(TCNT1, OCR1B))

(* ------------------------------ foreground ----------------------------- *)

\* the record of a foreground call: the pin given to SERVO_Init; for the angle
\* calls, whether the id (or pin) named a registered channel and whether the
\* angle lay in 0..180
Called(op, port, pin, idOK, angleOK) ==
    [NoEvent EXCEPT !.kind = op, !.port = port, !.pin = pin,
                    !.idOK = idOK, !.angleOK = angleOK]

\* mutant of CapacityReached: the capacity test is off by one
CapacityReached_OffByOne(count) == count > SERVO_MAX_NUM

\* SERVO.c:133  if (servo_count >= SERVO_MAX_NUM)
CapacityReached(count) == count >= SERVO_MAX_NUM

\* mutant of FirstRegistration: every registration sets the scheduler up
FirstRegistration_Always(count) == count >= 0

\* SERVO.c:141  if ( servo_count == 0 )
FirstRegistration(count) == count = 0

\* mutant of NewChannel: port and pin are stored in each other's field
NewChannel_Swapped(port, pin) == [port |-> pin % 4, pin |-> port % 8, ticks |-> 0]

\* SERVO.c:152-154  the stored record; port and pin are 2- and 3-bit fields
NewChannel(port, pin) == [port |-> port % 4, pin |-> pin % 8, ticks |-> 0]

\* mutant of RegisteredLevels: the pin is not driven LOW at registration
RegisteredLevels_Untouched(levels, port, pin) == levels

\* SERVO.c:159  DIO_SetPinValue(port, pin, LOW)
RegisteredLevels(levels, port, pin) == [levels EXCEPT ![<< port, pin >>] = LOW]

\* mutant of SERVO_Init: a full registry takes the new channel in its last slot
SERVO_Init_Overwrites(port, pin) ==
    IF CapacityReached(servo_count)
    THEN /\ servos' = [servos EXCEPT ![SERVO_MAX_NUM - 1] = NewChannel(port, pin)]
         /\ init_ret' = SERVO_MAX_NUM - 1
         /\ ev' = Called("SERVO_Init", port, pin, FALSE, FALSE)
         /\ UNCHANGED << servo_count, servo_id, TCNT1, OCR1B, callback,
                         pinLevel, pinDir, frame >>
    ELSE /\ callback' = (callback \/ FirstRegistration(servo_count))
         /\ TCNT1' = IF FirstRegistration(servo_count) THEN 0 ELSE TCNT1
         /\ servos' = [servos EXCEPT ![servo_count] = NewChannel(port, pin)]
         /\ pinDir' = [pinDir EXCEPT ![<< port, pin >>] = "OUTPUT"]
         /\ pinLevel' = RegisteredLevels(pinLevel, port, pin)
         /\ init_ret' = servo_count
         /\ servo_count' = (servo_count + 1) % 256
         /\ frame' = [frame EXCEPT !.static = FALSE]
         /\ ev' = Called("SERVO_Init", port, pin, FALSE, FALSE)
         /\ UNCHANGED << servo_id, OCR1B >>

SERVO_Init(port, pin) ==
    IF CapacityReached(servo_count)
    THEN /\ init_ret' = INVALID_ID
         /\ ev' = Called("SERVO_Init", port, pin, FALSE, FALSE)
         /\ UNCHANGED << servos, servo_count, servo_id, TCNT1, OCR1B, callback,
                         pinLevel, pinDir, frame >>
    ELSE /\ callback' = (callback \/ FirstRegistration(servo_count))
         /\ TCNT1' = IF FirstRegistration(servo_count) THEN 0 ELSE TCNT1
         /\ servos' = [servos EXCEPT ![servo_count] = NewChannel(port, pin)]
         /\ pinDir' = [pinDir EXCEPT ![<< port, pin >>] = "OUTPUT"]
         /\ pinLevel' = RegisteredLevels(pinLevel, port, pin)
         /\ init_ret' = servo_count
         /\ servo_count' = (servo_count + 1) % 256
         /\ frame' = [frame EXCEPT !.static = FALSE]
         /\ ev' = Called("SERVO_Init", port, pin, FALSE, FALSE)
         /\ UNCHANGED << servo_id, OCR1B >>

\* mutant of ValidAngleCall: the id is not checked against servo_count
ValidAngleCall_NoIdCheck(id, angle, count) ==
    (angle >= SERVO_MIN_ANGLE) /\ (angle <= SERVO_MAX_ANGLE)

\* mutant of ValidAngleCall: the upper angle bound is exclusive
ValidAngleCall_Exclusive(id, angle, count) ==
    (angle >= SERVO_MIN_ANGLE) /\ (angle < SERVO_MAX_ANGLE) /\ (id < count)

\* SERVO.c:183  angle and id check
ValidAngleCall(id, angle, count) ==
    (angle >= SERVO_MIN_ANGLE) /\ (angle <= SERVO_MAX_ANGLE) /\ (id < count)

\* SERVO.c:183-190  the registry after SERVO_SetAngleByID( id , angle )
SetTicks(s, id, angle, count) ==
    IF ValidAngleCall(id, angle, count)
    THEN [s EXCEPT ![id].ticks = StoredTicks(angle)]
    ELSE s

\* mutant of SERVO_SetAngleByID: a valid call also restarts the channel scan
SERVO_SetAngleByID_RestartsScan(id, angle) ==
    /\ servos' = SetTicks(servos, id, angle, servo_count)
    /\ servo_id' = IF ValidAngleCall(id, angle, servo_count) THEN 0 ELSE servo_id
    /\ ev' = Called("SERVO_SetAngleByID", 0, 0, id \in 0 .. servo_count - 1, angle \in 0 .. 180)
    /\ UNCHANGED << servo_count, TCNT1, OCR1B, callback,
                    pinLevel, pinDir, init_ret, frame >>

SERVO_SetAngleByID(id, angle) ==
    /\ servos' = SetTicks(servos, id, angle, servo_count)
    /\ ev' = Called("SERVO_SetAngleByID", 0, 0, id \in 0 .. servo_count - 1, angle \in 0 .. 180)
    /\ UNCHANGED << servo_count, servo_id, TCNT1, OCR1B, callback,
                    pinLevel, pinDir, init_ret, frame >>

\* SERVO.c:213  if ( ( servos[ servo_id ].pin == pin ) && ( servos[ servo_id ].port == port ) )
PinMatches(s, i, port, pin) == (s[i].pin = pin) /\ (s[i].port = port)

\* mutant of SetTicksByPin: the loop stops at the first matching channel
SetTicksByPin_FirstMatch(s, i, port, pin, angle, count) ==
    LET m == { j \in i .. count - 1 : PinMatches(s, j, port, pin) }
    IN  IF m = {} THEN s
        ELSE SetTicks(s, CHOOSE j \in m : \A k \in m : j <= k, angle, count)

\* SERVO.c:211-218  the loop over the registered channels, from index i on
RECURSIVE SetTicksByPin(_, _, _, _, _, _)
SetTicksByPin(s, i, port, pin, angle, count) ==
    IF i >= count THEN s
    ELSE SetTicksByPin(IF PinMatches(s, i, port, pin)
                       THEN SetTicks(s, i, angle, count) ELSE s,
                       i + 1, port, pin, angle, count)

SERVO_SetAngleByPin(port, pin, angle) ==
    /\ servos' = SetTicksByPin(servos, 0, port, pin, angle, servo_count)
    /\ ev' = Called("SERVO_SetAngleByPin", 0, 0,
                   \E i \in 0 .. servo_count - 1 : PinOf(i) = << port, pin >>,
                   angle \in 0 .. 180)
    /\ UNCHANGED << servo_count, servo_id, TCNT1, OCR1B, callback,
                    pinLevel, pinDir, init_ret, frame >>

(* ----------------------------- specification --------------------------- *)

Register == \E p \in InitInputs(IF servo_count < SERVO_MAX_NUM THEN servo_count ELSE 0) :
                SERVO_Init(p[1], p[2])

SetAngleByID == \E id \in IdInputs, angle \in Angles : SERVO_SetAngleByID(id, angle)

SetAngleByPin == \E p \in PinInputs, angle \in Angles : SERVO_SetAngleByPin(p[1], p[2], angle)

\* the handler may run as long as it begins no more than limit frames
FrameBudget(limit) == PulseInProgress(servo_id, servo_count) \/ frame.no < limit

Next ==
    \/ servo_count < MaxChannels /\ Register /\ UNCHANGED << angle_in, elsewhere >>
    \/ SetAngleByID /\ UNCHANGED << angle_in, elsewhere >>
    \/ SetAngleByPin /\ UNCHANGED << angle_in, elsewhere >>
    \/ FrameBudget(MaxFrames) /\ CompareMatch /\ UNCHANGED << angle_in, elsewhere >>

\* a small registry (at most MaxChannels channels), every interleaving of the
\* foreground calls with the handler
Spec == Init /\ [][Next]_vars

NextFull ==
    \/ Register /\ UNCHANGED << angle_in, elsewhere >>
    \/ SetAngleByID /\ UNCHANGED << angle_in, elsewhere >>
    \/ SetAngleByPin /\ UNCHANGED << angle_in, elsewhere >>
    \/ servo_count = SERVO_MAX_NUM /\ FrameBudget(MaxFullFrames) /\ CompareMatch
         /\ UNCHANGED << angle_in, elsewhere >>

\* the registry is filled to its capacity and the handler runs on the full registry
SpecFull == Init /\ [][NextFull]_vars

\* every angle of 0..180, and angles above, are given to SERVO_SetAngleByID for
\* channel 0
ConvertAngle ==
    \E angle \in AngleInputs :
        SERVO_SetAngleByID(0, angle) /\ angle_in' = angle /\ UNCHANGED elsewhere

NextConv ==
    \/ servo_count = 0 /\ Register /\ UNCHANGED << angle_in, elsewhere >>
    \/ ConvertAngle

SpecConv == Init /\ [][NextConv]_vars

InitTop == InitWith(TopCompare)

\* as Spec, with the compare register near the top of the counter's range when
\* the driver is first used
SpecTop == InitTop /\ [][Next]_vars

(* ------------------------- the scheduler left running -------------------- *)

LivePins == {FreshPin(0), FreshPin(1)}

\* every channel starts at ticks 0 and may be commanded at any time
LiveAngles == {SERVO_MAX_ANGLE}

\* a compare match, with the measurements of the frame left out: only the branch
\* taken and whether a pulse was started are recorded
CompareMatchLive ==
    /\ callback
    /\ HandlerRegisters
    /\ ev' = [NoEvent EXCEPT
                !.kind = IF PulseInProgress(servo_id, servo_count)
                         THEN "pulse-end" ELSE "new-frame",
                !.rose = pinLevel'[PinOf(servo_id')] = HIGH /\ servo_id' < servo_count]
    /\ UNCHANGED << frame, angle_in, elsewhere >>

RegisterLive ==
    /\ servo_count < Cardinality(LivePins)
    /\ \E p \in InitInputs(servo_count) : SERVO_Init(p[1], p[2])

SetAngleLive ==
    \E id \in 0 .. servo_count - 1, angle \in LiveAngles : SERVO_SetAngleByID(id, angle)

NextLive ==
    \/ RegisterLive /\ UNCHANGED << angle_in, elsewhere >>
    \/ SetAngleLive /\ UNCHANGED << angle_in, elsewhere >>
    \/ CompareMatchLive

\* the free-running counter reaches the compare register within one turn, so an
\* installed handler is always invoked again; the foreground calls may come at
\* any time or never
SpecLive == Init /\ [][NextLive]_vars /\ WF_vars(CompareMatchLive)

(* ---------------- SERVO_Init taken statement by statement --------------- *)

\* what a statement of SERVO_Init leaves alone besides the variables it names
InitStatement(next) ==
    /\ init_pc' = next
    /\ ev' = Called("SERVO_Init", init_arg[1], init_arg[2], FALSE, FALSE)
    /\ UNCHANGED << servo_id, OCR1B, angle_in, i2c, dht, line >>

\* SERVO.c:129  the call is made
InitCall(port, pin) ==
    /\ init_pc = 0
    /\ init_arg' = << port, pin >>
    /\ InitStatement(133)
    /\ UNCHANGED << servos, servo_count, TCNT1, callback, pinLevel, pinDir,
                    init_ret, frame >>

\* SERVO.c:133-141  the capacity test and the first-registration test
Init_133 ==
    /\ init_pc = 133
    /\ IF CapacityReached(servo_count)
       THEN init_ret' = INVALID_ID /\ InitStatement(0)
       ELSE /\ InitStatement(IF FirstRegistration(servo_count) THEN 144 ELSE 152)
            /\ UNCHANGED init_ret
    /\ UNCHANGED << servos, servo_count, TCNT1, callback, pinLevel, pinDir,
                    frame, init_arg >>

\* SERVO.c:144  TIMER1_SetCallback( TIMER1_COMPB_ID , & SERVO_Interrupt )
Init_144 ==
    /\ init_pc = 144
    /\ callback' = TRUE
    /\ InitStatement(147)
    /\ UNCHANGED << servos, servo_count, TCNT1, pinLevel, pinDir, init_ret,
                    frame, init_arg >>

\* SERVO.c:147  TIMER1_SetTimerValue( 0 )
Init_147 ==
    /\ init_pc = 147
    /\ TCNT1' = 0
    /\ InitStatement(152)
    /\ UNCHANGED << servos, servo_count, callback, pinLevel, pinDir, init_ret,
                    frame, init_arg >>

\* SERVO.c:152  servos[servo_count].port = port
Init_152 ==
    /\ init_pc = 152
    /\ servos' = [servos EXCEPT ![servo_count].port =
                                  NewChannel(init_arg[1], init_arg[2]).port]
    /\ InitStatement(153)
    /\ UNCHANGED << servo_count, TCNT1, callback, pinLevel, pinDir, init_ret,
                    frame, init_arg >>

\* SERVO.c:153  servos[servo_count].pin = pin
Init_153 ==
    /\ init_pc = 153
    /\ servos' = [servos EXCEPT ![servo_count].pin =
                                  NewChannel(init_arg[1], init_arg[2]).pin]
    /\ InitStatement(154)
    /\ UNCHANGED << servo_count, TCNT1, callback, pinLevel, pinDir, init_ret,
                    frame, init_arg >>

\* mutant of Init_154: the count is incremented before the pin is set up
Init_154_ThenPublish ==
    /\ init_pc = 154
    /\ servos' = [servos EXCEPT ![servo_count].ticks =
                                  NewChannel(init_arg[1], init_arg[2]).ticks]
    /\ InitStatement(163)
    /\ UNCHANGED << servo_count, TCNT1, callback, pinLevel, pinDir, init_ret,
                    frame, init_arg >>

\* SERVO.c:154  servos[servo_count].ticks = 0
Init_154 ==
    /\ init_pc = 154
    /\ servos' = [servos EXCEPT ![servo_count].ticks =
                                  NewChannel(init_arg[1], init_arg[2]).ticks]
    /\ InitStatement(158)
    /\ UNCHANGED << servo_count, TCNT1, callback, pinLevel, pinDir, init_ret,
                    frame, init_arg >>

\* SERVO.c:158  DIO_SetPinDirection(port, pin, OUTPUT)
Init_158 ==
    /\ init_pc = 158
    /\ pinDir' = [pinDir EXCEPT ![init_arg] = "OUTPUT"]
    /\ InitStatement(159)
    /\ UNCHANGED << servos, servo_count, TCNT1, callback, pinLevel, init_ret,
                    frame, init_arg >>

\* SERVO.c:159  DIO_SetPinValue(port, pin, LOW)
Init_159 ==
    /\ init_pc = 159
    /\ pinLevel' = RegisteredLevels(pinLevel, init_arg[1], init_arg[2])
    /\ InitStatement(163)
    /\ UNCHANGED << servos, servo_count, TCNT1, callback, pinDir, init_ret,
                    frame, init_arg >>

\* SERVO.c:163  return servo_count++
Init_163 ==
    /\ init_pc = 163
    /\ init_ret' = servo_count
    /\ servo_count' = (servo_count + 1) % 256
    /\ frame' = [frame EXCEPT !.static = FALSE]
    /\ InitStatement(0)
    /\ UNCHANGED << servos, TCNT1, callback, pinLevel, pinDir, init_arg >>

NextPreempt ==
    \/ servo_count < MaxChannels /\ \E p \in InitInputs(servo_count) : InitCall(p[1], p[2])
    \/ Init_133
    \/ Init_144
    \/ Init_147
    \/ Init_152
    \/ Init_153
    \/ Init_154
    \/ Init_158
    \/ Init_159
    \/ Init_163
    \/ init_pc = 0 /\ SetAngleByID /\ UNCHANGED << angle_in, elsewhere >>
    \/ FrameBudget(MaxFrames) /\ CompareMatch /\ UNCHANGED << angle_in, elsewhere >>

\* the handler may run between any two statements of SERVO_Init
SpecPreempt == Init /\ [][NextPreempt]_vars

(* ---------------------- EXT_EEPROM and RTC over I2C ---------------------- *)

\* the SERVO driver's variables, left alone by the other drivers
servoState == << servos, servo_count, servo_id, TCNT1, OCR1B, callback, pinLevel,
                 pinDir, init_ret, frame, ev, angle_in, init_pc, init_arg >>

\* uint16 arithmetic (unsigned int is 16 bits wide on the ATmega32)
Uint16(x) == x % Pow2(16)

\* sizes given to the array operations
ArraySizes == 0 .. 3

I2cStep(call, err) == [ call |-> call, err |-> err, dst |-> "none" ]

I2cRead(call, err, dst) == [ call |-> call, err |-> err, dst |-> dst ]

\* EXT_EEPROM.c:50-95  start, slave address for writing, two address bytes
\* (EXT_EEPROM_ADDRESS_BYTES is EXT_EEPROM_2_BYTE_ADDRESS)
EepromAddressPhase ==
    << I2cStep("I2C_Start", "EXT_EEPROM_START_ERROR"),
       I2cStep("I2C_SendSlaveAddress_Write", "EXT_EEPROM_SLAW_ERROR"),
       I2cStep("I2C_WriteData", "EXT_EEPROM_H_ADDR_ERROR"),
       I2cStep("I2C_WriteData", "EXT_EEPROM_L_ADDR_ERROR") >>

\* EXT_EEPROM.c:273-284  repeated start, slave address for reading
EepromTurnAround ==
    << I2cStep("I2C_RepeatedStart", "EXT_EEPROM_RE_START_ERROR"),
       I2cStep("I2C_SendSlaveAddress_Read", "EXT_EEPROM_SLAR_ERROR") >>

Stop == << I2cStep("I2C_Stop", "none") >>

\* EXT_EEPROM.c:46-114
EXT_EEPROM_WriteByte ==
    EepromAddressPhase
    \o << I2cStep("I2C_WriteData", "EXT_EEPROM_W_DATA_ERROR") >>
    \o Stop

\* EXT_EEPROM.c:131-203  the loop of line 185 sends DataArray[0 .. ArraySize-1]
EXT_EEPROM_WriteArray ==
    EepromAddressPhase
    \o << I2cStep("for-write", "ERROR") >>
    \o Stop

\* EXT_EEPROM.c:219-298
EXT_EEPROM_ReadByte ==
    EepromAddressPhase \o EepromTurnAround
    \o << I2cRead("I2C_ReadData_NACK", "EXT_EEPROM_R_DATA_N_ERROR", "Data") >>
    \o Stop

\* EXT_EEPROM.c:315-405  the loop of line 383 reads into DataArray[byteIndex],
\* line 394 reads into DataArray[ArraySize - 1]
EXT_EEPROM_ReadArray ==
    EepromAddressPhase \o EepromTurnAround
    \o << I2cRead("for-read", "EXT_EEPROM_R_DATA_A_ERROR", "DataArray[byteIndex]"),
          I2cRead("I2C_ReadData_NACK", "EXT_EEPROM_R_DATA_N_ERROR", "DataArray[ArraySize-1]") >>
    \o Stop

\* RTC.c:120-137, 191-208, 300-317, 379-396  start, slave address, register address
RtcAddressPhase ==
    << I2cStep("I2C_Start", "RTC_START_ERROR"),
       I2cStep("I2C_SendSlaveAddress_Write", "RTC_SLAW_ERROR"),
       I2cStep("I2C_WriteData", "RTC_W_DATA_ERROR") >>

\* RTC.c:212-222, 400-410
RtcTurnAround ==
    << I2cStep("I2C_RepeatedStart", "RTC_RE_START_ERROR"),
       I2cStep("I2C_SendSlaveAddress_Read", "RTC_SLAR_ERROR") >>

RtcWrite == I2cStep("I2C_WriteData", "RTC_W_DATA_ERROR")

RtcReadAck == I2cRead("I2C_ReadData_ACK", "RTC_R_DATA_A_ERROR", "local")

RtcReadNack == I2cRead("I2C_ReadData_NACK", "RTC_R_DATA_N_ERROR", "local")

\* RTC.c:111-166
RTC_SetTime == RtcAddressPhase \o << RtcWrite, RtcWrite, RtcWrite >> \o Stop

\* RTC.c:182-274
RTC_GetTime ==
    RtcAddressPhase \o RtcTurnAround \o << RtcReadAck, RtcReadAck, RtcReadNack >> \o Stop

\* RTC.c:288-353
RTC_SetDate == RtcAddressPhase \o << RtcWrite, RtcWrite, RtcWrite, RtcWrite >> \o Stop

\* RTC.c:369-470
RTC_GetDate ==
    RtcAddressPhase \o RtcTurnAround
    \o << RtcReadAck, RtcReadAck, RtcReadAck, RtcReadNack >> \o Stop

EepromOps == { "EXT_EEPROM_WriteByte", "EXT_EEPROM_WriteArray",
               "EXT_EEPROM_ReadByte", "EXT_EEPROM_ReadArray" }

RtcOps == { "RTC_SetTime", "RTC_GetTime", "RTC_SetDate", "RTC_GetDate" }

ArrayOps == { "EXT_EEPROM_WriteArray", "EXT_EEPROM_ReadArray" }

Script(op) ==
    CASE op = "EXT_EEPROM_WriteByte"  -> EXT_EEPROM_WriteByte
      [] op = "EXT_EEPROM_WriteArray" -> EXT_EEPROM_WriteArray
      [] op = "EXT_EEPROM_ReadByte"   -> EXT_EEPROM_ReadByte
      [] op = "EXT_EEPROM_ReadArray"  -> EXT_EEPROM_ReadArray
      [] op = "RTC_SetTime"           -> RTC_SetTime
      [] op = "RTC_GetTime"           -> RTC_GetTime
      [] op = "RTC_SetDate"           -> RTC_SetDate
      [] op = "RTC_GetDate"           -> RTC_GetDate

\* the statement the call in progress is at
At == Script(i2c.op)[i2c.pc]

Running(call) == i2c.pc > 0 /\ At.call = call

Advance(t) == [t EXCEPT !.pc = @ + 1]

\* the operation returns code; the bus stays as the call left it
Return(t, code) == [t EXCEPT !.pc = 0, !.ret = code]

\* if( I2C_...() == ERROR ) return <error code of this statement>;
Checked(ok, t) == IF ok THEN Advance(t) ELSE Return(t, At.err)

\* the element of DataArray a read writes to is outside DataArray[0 .. ArraySize-1]
OutsideArray(dst, index, size) ==
    \/ dst = "DataArray[byteIndex]" /\ index >= size
    \/ dst = "DataArray[ArraySize-1]" /\ Uint16(size - 1) >= size

\* *Data = TWDR is executed whether or not the status is the expected one
Stored(t, dst) == [t EXCEPT !.outside = @ \/ OutsideArray(dst, t.index, t.size)]

\* a call of one of the eight operations; the bus is as the last call left it
Call(op, size) ==
    /\ i2c.pc = 0
    /\ i2c' = [NoTransfer EXCEPT !.op = op, !.pc = 1, !.size = size,
                                 !.started = i2c.started]
    /\ UNCHANGED << servoState, dht, line >>

\* I2C.c:195-205  ok: the status is I2C_START_TRANSMITTED_SC
I2C_Start(ok) ==
    /\ Running("I2C_Start")
    /\ i2c' = Checked(ok, [i2c EXCEPT !.started = @ \/ ok])
    /\ UNCHANGED << servoState, dht, line >>

\* I2C.c:223-233
I2C_RepeatedStart(ok) ==
    /\ Running("I2C_RepeatedStart")
    /\ i2c' = Checked(ok, i2c)
    /\ UNCHANGED << servoState, dht, line >>

\* I2C.c:252-264
I2C_SendSlaveAddress_Write(ok) ==
    /\ Running("I2C_SendSlaveAddress_Write")
    /\ i2c' = Checked(ok, i2c)
    /\ UNCHANGED << servoState, dht, line >>

\* I2C.c:284-296
I2C_SendSlaveAddress_Read(ok) ==
    /\ Running("I2C_SendSlaveAddress_Read")
    /\ i2c' = Checked(ok, i2c)
    /\ UNCHANGED << servoState, dht, line >>

\* I2C.c:316-326
I2C_WriteData(ok) ==
    /\ Running("I2C_WriteData")
    /\ i2c' = Checked(ok, i2c)
    /\ UNCHANGED << servoState, dht, line >>

\* I2C.c:345-357
I2C_ReadData_ACK(ok) ==
    /\ Running("I2C_ReadData_ACK")
    /\ i2c' = Checked(ok, [Stored(i2c, At.dst) EXCEPT !.acks = @ + 1])
    /\ UNCHANGED << servoState, dht, line >>

\* I2C.c:377-389
I2C_ReadData_NACK(ok) ==
    /\ Running("I2C_ReadData_NACK")
    /\ i2c' = Checked(ok, [Stored(i2c, At.dst) EXCEPT !.nacks = @ + 1])
    /\ UNCHANGED << servoState, dht, line >>

\* EXT_EEPROM.c:185-193  one turn of the loop: byteIndex < ArraySize, then
\* I2C_WriteData( DataArray[byteIndex] ) and byteIndex++
WriteArrayTurn(ok) ==
    /\ Running("for-write")
    /\ i2c.index < i2c.size
    /\ i2c' = IF ok THEN [i2c EXCEPT !.index = Uint16(@ + 1)] ELSE Return(i2c, At.err)
    /\ UNCHANGED << servoState, dht, line >>

\* EXT_EEPROM.c:383  byteIndex < ArraySize - 1, both operands unsigned 16-bit
ReadArrayLimit(size) == Uint16(size - 1)

\* EXT_EEPROM.c:383-391  one turn of the loop: byteIndex < ArraySize - 1, then
\* I2C_ReadData_ACK( & DataArray[ byteIndex ] ) and byteIndex++
ReadArrayTurn(ok) ==
    /\ Running("for-read")
    /\ i2c.index < ReadArrayLimit(i2c.size)
    /\ i2c' = IF ok
              THEN [Stored(i2c, At.dst) EXCEPT !.acks = @ + 1, !.index = Uint16(@ + 1)]
              ELSE Return([Stored(i2c, At.dst) EXCEPT !.acks = @ + 1], At.err)
    /\ UNCHANGED << servoState, dht, line >>

\* EXT_EEPROM.c:185, 383  the loop condition is false
LoopExit ==
    /\ \/ Running("for-write") /\ ~(i2c.index < i2c.size)
       \/ Running("for-read") /\ ~(i2c.index < ReadArrayLimit(i2c.size))
    /\ i2c' = Advance(i2c)
    /\ UNCHANGED << servoState, dht, line >>

\* I2C.c:406-414 and the return SUCCESS that follows it in every operation
I2C_Stop ==
    /\ Running("I2C_Stop")
    /\ i2c' = Return([i2c EXCEPT !.started = FALSE], "SUCCESS")
    /\ UNCHANGED << servoState, dht, line >>

NextI2C ==
    \/ \E op \in (EepromOps \cup RtcOps) \ ArrayOps : Call(op, 0)
    \/ \E op \in ArrayOps, size \in ArraySizes : Call(op, size)
    \/ \E ok \in BOOLEAN : I2C_Start(ok)
    \/ \E ok \in BOOLEAN : I2C_RepeatedStart(ok)
    \/ \E ok \in BOOLEAN : I2C_SendSlaveAddress_Write(ok)
    \/ \E ok \in BOOLEAN : I2C_SendSlaveAddress_Read(ok)
    \/ \E ok \in BOOLEAN : I2C_WriteData(ok)
    \/ \E ok \in BOOLEAN : I2C_ReadData_ACK(ok)
    \/ \E ok \in BOOLEAN : I2C_ReadData_NACK(ok)
    \/ \E ok \in BOOLEAN : WriteArrayTurn(ok)
    \/ \E ok \in BOOLEAN : ReadArrayTurn(ok)
    \/ LoopExit
    \/ I2C_Stop

SpecI2C == Init /\ [][NextI2C]_vars

(* --------------------------------- DHT11 -------------------------------- *)

\* DHT11_config.h:52
DHT11_COUNTOUT == 10000

\* DHT11_def.h:41-43
DHT11_SUCCESS == 0

DHT11_CHECKSUM_ERROR == 1

DHT11_TIMEOUT_ERROR == 2

DHT11_BITS == 40

\* the variables DHT11_Read and the sensor leave alone
notDht == << servoState, i2c >>

\* the sensor (or nothing but the pull-up) changes the level of the data line; it
\* may do so at any time and need not do so at all
SensorDrives ==
    /\ line' = IF line = HIGH THEN LOW ELSE HIGH
    /\ UNCHANGED << notDht, dht >>

\* DHT11.c:46-76  locals initialised, start signal sent, pin released, timeout = 0
DHT11_Read ==
    /\ dht.pc = 0
    /\ dht' = [NoRead EXCEPT !.pc = 78]
    /\ UNCHANGED << notDht, line >>

\* while ( <pin at level> && timeout++ < DHT11_COUNTOUT ) ;  evaluated once:
\* the counter is incremented whenever the pin is at the level waited on
Waiting(level) == line = level /\ dht.timeout < DHT11_COUNTOUT

Counted(level) == IF line = level THEN dht.timeout + 1 ELSE dht.timeout

\* DHT11.c:81-86, 98-103  result.status = DHT11_TIMEOUT_ERROR; return result;
TimedOut(t) == t >= DHT11_COUNTOUT

ReturnStatus(code) == [dht EXCEPT !.pc = 0, !.status = code, !.returned = TRUE]

\* DHT11.c:78-89  wait for the sensor to pull the line LOW
Poll_78 ==
    /\ dht.pc = 78
    /\ dht' = IF Waiting(HIGH) THEN [dht EXCEPT !.timeout = @ + 1]
              ELSE IF TimedOut(Counted(HIGH)) THEN ReturnStatus(DHT11_TIMEOUT_ERROR)
              ELSE [dht EXCEPT !.pc = 92, !.timeout = 0]
    /\ UNCHANGED << notDht, line >>

\* DHT11.c:92  wait for the sensor to release the line
Poll_92 ==
    /\ dht.pc = 92
    /\ dht' = IF Waiting(LOW) THEN [dht EXCEPT !.timeout = @ + 1]
              ELSE [dht EXCEPT !.pc = 95, !.timeout = Counted(LOW)]
    /\ UNCHANGED << notDht, line >>

\* DHT11.c:95-103  wait for the end of the response, with the same counter; the
\* counter is not read after line 98 and is not kept
Poll_95 ==
    /\ dht.pc = 95
    /\ dht' = IF Waiting(HIGH) THEN [dht EXCEPT !.timeout = @ + 1]
              ELSE IF TimedOut(Counted(HIGH)) THEN ReturnStatus(DHT11_TIMEOUT_ERROR)
              ELSE [dht EXCEPT !.pc = 119, !.timeout = 0]
    /\ UNCHANGED << notDht, line >>

\* DHT11.c:119  while ( DIO_GetPinValue( DHT11_PORT , DHT11_PIN ) == 0 );
Poll_119 ==
    /\ dht.pc = 119
    /\ dht' = IF line = LOW THEN dht ELSE [dht EXCEPT !.pc = 125]
    /\ UNCHANGED << notDht, line >>

\* weight of bit number n (0 .. 39, sent most significant first) in
\* data[0] + data[1] + data[2] + data[3] - data[4], modulo 256
BitWeight(n) ==
    IF n \div 8 < 4 THEN Pow2(7 - (n % 8)) ELSE 256 - Pow2(7 - (n % 8))

\* DHT11.c:116-125  data[ byte ] <<= 1, 30 us later data[ byte ] |= pin; only the
\* difference between the sum of the first four bytes and the fifth is kept
Sample_125 ==
    /\ dht.pc = 125
    /\ dht' = [dht EXCEPT !.pc = 128,
                          !.diff = (@ + line * BitWeight(dht.bits)) % 256]
    /\ UNCHANGED << notDht, line >>

\* DHT11.c:137-151  the checksum decides between DHT11_SUCCESS and
\* DHT11_CHECKSUM_ERROR
ChecksumStatus(diff) == IF diff = 0 THEN DHT11_SUCCESS ELSE DHT11_CHECKSUM_ERROR

\* DHT11.c:128  while ( DIO_GetPinValue( DHT11_PORT , DHT11_PIN ) );  then the
\* next bit, or the checksum after the last one
Poll_128 ==
    /\ dht.pc = 128
    /\ dht' = IF line = HIGH THEN dht
              ELSE IF dht.bits + 1 = DHT11_BITS
                   THEN [ReturnStatus(ChecksumStatus(dht.diff)) EXCEPT !.bits = @ + 1]
                   ELSE [dht EXCEPT !.pc = 119, !.bits = @ + 1]
    /\ UNCHANGED << notDht, line >>

\* one step of the program: the call or the statement it is at
ReadStep ==
    DHT11_Read \/ Poll_78 \/ Poll_92 \/ Poll_95 \/ Poll_119 \/ Sample_125 \/ Poll_128

NextDHT == SensorDrives \/ ReadStep

\* the processor keeps executing the call; nothing is assumed about the sensor
SpecDHT == Init /\ [][NextDHT]_vars /\ WF_vars(ReadStep)

(* -------------------------------- claims -------------------------------- *)

DriverState == << servos, servo_count, servo_id, TCNT1, OCR1B, callback, pinLevel, pinDir >>

DistinctPins ==
    \A i, j \in 0 .. servo_count - 1 : i # j => PinOf(i) # PinOf(j)

\* C1: a SERVO_Init call made while the registry holds SERVO_MAX_NUM channels
\* returns 0xFF and leaves servo_count, every stored channel, the timer
\* registers, the installed callback, the cursor and every pin as they were.
C1_FullRegistryRejects ==
    [][ (ev'.kind = "SERVO_Init" /\ servo_count >= SERVO_MAX_NUM)
          => (init_ret' = INVALID_ID /\ UNCHANGED DriverState) ]_vars

\* the registry is full, the handler has run, a channel is commanded, and a
\* further SERVO_Init has just returned 0xFF
C1_Witness ==
    /\ ev.kind = "SERVO_Init"
    /\ servo_count = SERVO_MAX_NUM
    /\ init_ret = INVALID_ID
    /\ servo_id < servo_count
    /\ servos[SERVO_MAX_NUM - 1].ticks > 0

\* C2: a SERVO_Init(port, pin) call made with servo_count < SERVO_MAX_NUM returns
\* the previous servo_count, stores (port, pin, ticks = 0) at that index, leaves
\* the earlier channels alone, increments servo_count by one and has the pin
\* configured as output and driven LOW.
C2_RegistersChannel ==
    [][ (ev'.kind = "SERVO_Init" /\ servo_count < SERVO_MAX_NUM)
          => /\ init_ret' = servo_count
             /\ servo_count' = servo_count + 1
             /\ servos'[servo_count] = [port |-> ev'.port, pin |-> ev'.pin, ticks |-> 0]
             /\ \A i \in 0 .. SERVO_MAX_NUM - 1 : i # servo_count => servos'[i] = servos[i]
             /\ pinDir'[<< ev'.port, ev'.pin >>] = "OUTPUT"
             /\ pinLevel'[<< ev'.port, ev'.pin >>] = LOW ]_vars

\* the ninth registration has just returned id 8 for a pin of port B
C2_Witness ==
    /\ ev.kind = "SERVO_Init"
    /\ init_ret = SERVO_MAX_NUM - 1
    /\ servo_count = SERVO_MAX_NUM
    /\ PinOf(SERVO_MAX_NUM - 1) = << 1, 0 >>
    /\ pinDir[<< 1, 0 >>] = "OUTPUT"
    /\ pinLevel[<< 1, 0 >>] = LOW

\* C3: SERVO_SetAngleByID with an angle above 180 or an id that names no
\* registered channel changes no channel, not servo_count, no pin and no timer
\* register.
C3_InvalidCallIgnored ==
    [][ (ev'.kind = "SERVO_SetAngleByID" /\ ~(ev'.idOK /\ ev'.angleOK))
          => UNCHANGED DriverState ]_vars

\* an out-of-range id has just been given while a commanded channel's pulse is in
\* progress
C3_Witness ==
    /\ ev.kind = "SERVO_SetAngleByID"
    /\ ~ev.idOK
    /\ ev.angleOK
    /\ servo_id < servo_count
    /\ servos[servo_id].ticks > 0
    /\ pinLevel[PinOf(servo_id)] = HIGH

\* C4: SERVO_SetAngleByID(k, angle) with k registered and angle in 0..180 stores
\* AngleToTicks(angle) in channel k and changes nothing else.
C4_ValidAngleTakesEffect ==
    [][ (ev'.kind = "SERVO_SetAngleByID" /\ ev'.idOK /\ ev'.angleOK)
          => \A k \in IdInputs, a \in Angles :
               (k < servo_count /\ a <= SERVO_MAX_ANGLE /\ SERVO_SetAngleByID(k, a))
                 => /\ servos'[k].ticks = AngleToTicks(a)
                    /\ servos'[k].port = servos[k].port
                    /\ servos'[k].pin = servos[k].pin
                    /\ \A i \in 0 .. SERVO_MAX_NUM - 1 : i # k => servos'[i] = servos[i]
                    /\ UNCHANGED << servo_count, servo_id, TCNT1, OCR1B, callback,
                                    pinLevel, pinDir >> ]_vars

\* channel 1 has just been set to 180 degrees during channel 0's pulse
C4_Witness ==
    /\ ev.kind = "SERVO_SetAngleByID"
    /\ ev.idOK /\ ev.angleOK
    /\ servo_count = 2
    /\ servo_id = 0
    /\ pinLevel[PinOf(0)] = HIGH
    /\ servos[1].ticks = SERVO_US_TO_TICKS(2000)
    /\ servos[0].ticks = SERVO_US_TO_TICKS(1000)

\* the pulse a handler invocation has just ended lasted as many ticks as the
\* channel's ticks field held at its rising edge
PulseWidthExact == ev.fell => ev.width = ev.expect

\* in the frame just completed, every channel registered when the frame began
\* saw exactly one rising edge on its pin, or none if it was skipped for ticks = 0
OnePulsePerChannel ==
    ev.kind = "new-frame"
      => \A i \in 0 .. ev.count - 1 : ev.edges[i] = (IF ev.skipped[i] THEN 0 ELSE 1)

\* C5 as stated: in every complete frame each registered channel's pin is HIGH
\* for exactly one contiguous interval, of the length its ticks field had at the
\* rising edge, and a channel whose ticks is 0 sees no rising edge on its pin.
C5_OnePulsePerFrame == PulseWidthExact /\ OnePulsePerChannel

\* C5 amended: the same, for channels registered on pairwise distinct pins.
C5_OnePulsePerFrameDistinctPins == DistinctPins => C5_OnePulsePerFrame

\* a frame of two channels on distinct pins has just been completed: channel 0
\* was pulsed once and channel 1, with ticks = 0, was skipped
C5_Witness ==
    /\ ev.kind = "new-frame"
    /\ DistinctPins
    /\ ev.count = 2
    /\ ev.edges[0] = 1 /\ ~ev.skipped[0]
    /\ ev.edges[1] = 0 /\ ev.skipped[1]

\* C6: with the channels on pairwise distinct pins, a servo pin that is HIGH is
\* the pin of the channel the cursor points to, so at most one servo pin is HIGH.
C6_NoOverlap ==
    DistinctPins
      => \A i \in 0 .. servo_count - 1 : pinLevel[PinOf(i)] = HIGH => i = servo_id

\* channel 1's pulse is in progress after channel 0's pulse has ended
C6_Witness ==
    /\ DistinctPins
    /\ servo_count = 2
    /\ servo_id = 1
    /\ servos[0].ticks > 0
    /\ pinLevel[PinOf(1)] = HIGH
    /\ pinLevel[PinOf(0)] = LOW

\* C7: a frame during which no channel was registered lasts SERVO_PWM_INTERVAL_TICKS
\* from its counter reset to the next one, whatever the channels' ticks values.
C7_FramePeriodFixed ==
    (ev.kind = "new-frame" /\ ev.static) => ev.len = SERVO_PWM_INTERVAL_TICKS

\* C8: when a channel with ticks = 0 comes before it in the frame, a channel's
\* rising edge still comes as soon as the earlier pulses of the frame have
\* ended: the skipped channel adds no waiting time.
C8_ZeroWidthNoStall ==
    (ev.rose /\ \E i \in 0 .. servo_id - 1 : frame.skipped[i])
      => ev.riseAt = ev.sumBefore

\* C9: every registered channel's ticks is 0 or lies between
\* SERVO_MIN_PULSE_TICKS and SERVO_MAX_PULSE_TICKS.
C9_PulseTicksInRange ==
    \A i \in 0 .. servo_count - 1 :
        \/ servos[i].ticks = 0
        \/ (SERVO_MIN_PULSE_TICKS <= servos[i].ticks /\ servos[i].ticks <= SERVO_MAX_PULSE_TICKS)

\* C10: the value SERVO_SetAngleByID stores for 0 degrees is the tick count of
\* 1000 us, and for 180 degrees the tick count of 2000 us.
C10_EndpointsExact ==
    (ev.kind = "SERVO_SetAngleByID" /\ servo_count > 0)
      => /\ angle_in = 0 => servos[0].ticks = SERVO_US_TO_TICKS(1000)
         /\ angle_in = 180 => servos[0].ticks = SERVO_US_TO_TICKS(2000)

\* 180 degrees has just been stored after a different value
C10_Witness ==
    /\ ev.kind = "SERVO_SetAngleByID"
    /\ angle_in = 180
    /\ servo_count = 1
    /\ servos[0].ticks > SERVO_US_TO_TICKS(1000)

\* SERVO_config.h:52-55  a clock and prescaler are supported when the frame
\* period fits the 16-bit counter
TIMER1_MAX_CAPACITY == TIMER1_MODULUS - 1

ClockInputs == {1000000, 2000000, 4000000, 8000000, 12000000, 16000000}

PrescalerInputs == {1, 8, 64, 256, 1024}

ClockConfigs ==
    { cfg \in ClockInputs \X PrescalerInputs :
        UsToTicks(SERVO_PWM_INTERVAL_US, cfg[1], cfg[2]) <= TIMER1_MAX_CAPACITY }

\* C11: the tick count SERVO_SetAngleByID stores for an angle of 0..180 is at
\* least the tick count of every smaller angle, under the configured clock and
\* under every supported clock and prescaler.
C11_TicksMonotonic ==
    (ev.kind = "SERVO_SetAngleByID" /\ servo_count > 0 /\ angle_in <= SERVO_MAX_ANGLE)
      => \A a \in SERVO_MIN_ANGLE .. angle_in :
            /\ AngleToTicks(a) <= servos[0].ticks
            /\ \A cfg \in ClockConfigs :
                 UsToTicks(AngleToMicroseconds(a), cfg[1], cfg[2]) % TICKS_MODULUS
                   <= UsToTicks(AngleToMicroseconds(angle_in), cfg[1], cfg[2]) % TICKS_MODULUS

\* 90 degrees has just been stored, a value strictly between the endpoints'
C11_Witness ==
    /\ ev.kind = "SERVO_SetAngleByID"
    /\ angle_in = 90
    /\ servo_count = 1
    /\ servos[0].ticks > AngleToTicks(SERVO_MIN_ANGLE)
    /\ servos[0].ticks < AngleToTicks(SERVO_MAX_ANGLE)

\* the registry after SERVO_SetAngleByID( i , angle ) has been applied to every
\* registered index i whose stored port and pin are the given ones
SetByIDOnEveryMatch(s, port, pin, angle, count) ==
    [i \in 0 .. SERVO_MAX_NUM - 1 |->
        IF i < count /\ s[i].port = port /\ s[i].pin = pin
        THEN SetTicks(s, i, angle, count)[i]
        ELSE s[i]]

\* C12: SERVO_SetAngleByPin changes the registry as SERVO_SetAngleByID does when
\* called for every registered index whose port and pin match; the other
\* channels keep their fields, nothing else changes, and without a match or with
\* an angle above 180 the registry is unchanged.
C12_ByPinIsByIDOnMatches ==
    [][ ev'.kind = "SERVO_SetAngleByPin"
          => \A p \in PinInputs, a \in Angles :
               (/\ ev'.angleOK = (a <= SERVO_MAX_ANGLE)
                /\ ev'.idOK = (\E i \in 0 .. servo_count - 1 : PinOf(i) = p)
                /\ SERVO_SetAngleByPin(p[1], p[2], a))
                 => /\ servos' = SetByIDOnEveryMatch(servos, p[1], p[2], a, servo_count)
                    /\ \A i \in 0 .. SERVO_MAX_NUM - 1 :
                         (i >= servo_count \/ PinOf(i) # p) => servos'[i] = servos[i]
                    /\ ((\A i \in 0 .. servo_count - 1 : PinOf(i) # p)
                          \/ a > SERVO_MAX_ANGLE) => servos' = servos
                    /\ UNCHANGED << servo_count, servo_id, TCNT1, OCR1B, callback,
                                    pinLevel, pinDir >> ]_vars

\* two channels registered on the same pin have both been set by one call
C12_Witness ==
    /\ ev.kind = "SERVO_SetAngleByPin"
    /\ ev.idOK /\ ev.angleOK
    /\ servo_count = 2
    /\ PinOf(0) = PinOf(1)
    /\ servos[0].ticks = AngleToTicks(180)
    /\ servos[1].ticks = AngleToTicks(180)

HandlerKinds == {"first", "new-frame", "pulse-end"}

\* C13: a pulse that has just ended lasted as many ticks as the channel's ticks
\* field held at its rising edge; the handler starts the pulse of the channel it
\* examines with the value the field holds at that moment, whenever that value
\* is above 0; and every channel registered when a frame began is examined
\* exactly once in that frame.  A value written during one frame is therefore
\* the width of the channel's pulse in the following frame at the latest.
C13_PulseUsesLatestTicks ==
    /\ ev.fell => ev.width = ev.expect
    /\ ev.rose => /\ frame.riseTicks = servos[servo_id].ticks
                  /\ OCR1B = (TCNT1 + servos[servo_id].ticks) % TIMER1_MODULUS
    /\ (ev.kind \in HandlerKinds /\ servo_id < servo_count /\ servos[servo_id].ticks > 0)
         => ev.rose
    /\ ev.kind = "new-frame"
         => \A i \in 0 .. ev.count - 1 :
              ev.rises[i] + (IF ev.skipped[i] THEN 1 ELSE 0) = 1

\* channel 0 was set to 180 degrees while its pulse of 1000 ticks was in
\* progress: the pulse has just ended after 1000 ticks
C13_Witness ==
    /\ ev.kind = "pulse-end"
    /\ ev.fell
    /\ ev.width = AngleToTicks(0)
    /\ servo_id = 1
    /\ servos[0].ticks = AngleToTicks(180)

\* C14: the handler is installed and the counter reset to 0 by the registration
\* that finds the registry empty, and by no other step: a later SERVO_Init call
\* leaves the callback and the counter as they are.
C14_SetupOnce ==
    [][ /\ callback' # callback => (ev'.kind = "SERVO_Init" /\ servo_count = 0)
        /\ callback' <=> servo_count' > 0
        /\ ev'.kind = "SERVO_Init"
             => IF servo_count = 0
                THEN callback' /\ ~callback /\ TCNT1' = 0
                ELSE callback' = callback /\ TCNT1' = TCNT1 ]_vars

\* a second channel has just been registered while the counter was running
C14_Witness ==
    /\ ev.kind = "SERVO_Init"
    /\ servo_count = 2
    /\ callback
    /\ TCNT1 > 0
    /\ frame.started

\* every registered channel has ticks > 0, none was skipped and none was
\* registered in the frame in progress
EveryChannelPulsed ==
    /\ frame.static
    /\ \A i \in 0 .. servo_count - 1 : servos[i].ticks > 0 /\ ~frame.skipped[i]

AllServoPinsLow == \A i \in 0 .. servo_count - 1 : pinLevel[PinOf(i)] = LOW

\* C15: in a frame in which every channel has ticks > 0, the invocation that
\* begins the frame raises channel 0; an invocation that ends a pulse lowers the
\* pin of the channel under the cursor, advances the cursor by one and raises
\* the next channel's pin at once; and while the cursor stands behind the last
\* channel every servo pin is LOW.
C15_BackToBack ==
    [][ /\ (ev'.kind \in {"first", "new-frame"} /\ EveryChannelPulsed')
             => servo_id' = 0 /\ ev'.rose /\ pinLevel'[PinOf(0)] = HIGH
        /\ (ev'.kind = "pulse-end" /\ EveryChannelPulsed')
             => /\ servo_id' = servo_id + 1
                /\ ev'.fell
                /\ servo_id' < servo_count
                     => /\ ev'.rose
                        /\ ev'.riseAt = ev'.sumBefore
                        /\ pinLevel'[PinOf(servo_id')] = HIGH
        /\ servo_id' = servo_count' => AllServoPinsLow' ]_vars

\* channel 0's pulse has just ended and channel 1's has begun in the same
\* invocation
C15_Witness ==
    /\ ev.kind = "pulse-end"
    /\ EveryChannelPulsed
    /\ servo_count = 2
    /\ servo_id = 1
    /\ ev.fell /\ ev.rose
    /\ pinLevel[PinOf(0)] = LOW
    /\ pinLevel[PinOf(1)] = HIGH

\* C16: in the frame just completed the cursor came to stand behind the last
\* channel exactly once.
C16_OneIdleGapPerFrame == ev.kind = "new-frame" => ev.gaps = 1

\* C17: every handler invocation writes the compare register, and the value it
\* leaves there differs from the counter.
C17_AlwaysRearmed == ev.kind \in HandlerKinds => (ev.armed /\ OCR1B # TCNT1)

\* C18: the handler takes the end-of-pulse branch only if the previous
\* invocation drove the channel under the cursor HIGH, and the new-frame branch
\* in every other case.
C18_PulseEndOnlyAfterRise ==
    /\ ev.kind = "pulse-end" => ev.expect > 0
    /\ ev.kind \in {"first", "new-frame"} => ev.expect = 0

\* C19: the first handler invocation finds the cursor at 0xFF, which is in range
\* for no servo_count of 0..9; it drives no pin LOW, resets the counter to 0,
\* sets the cursor to 0 and begins the first frame.
C19_FirstInvocationStartsFrame ==
    [][ (~frame.started /\ ev'.kind \in HandlerKinds)
          => /\ servo_id = 255
             /\ \A c \in 0 .. SERVO_MAX_NUM :
                  /\ ~PulseInProgress(servo_id, c)
                  /\ CursorAfter(servo_id, c) = 0
                  /\ CounterAfter(servo_id, c, OCR1B) = 0
             /\ ev'.kind = "first"
             /\ servo_id' = 0
             /\ TCNT1' = 0
             /\ \A p \in PinSet : pinLevel[p] = HIGH => pinLevel'[p] = HIGH
             /\ frame'.started /\ frame'.no = 1 ]_vars

\* the first invocation has just run with two channels registered
C19_Witness ==
    /\ ev.kind = "first"
    /\ servo_count = 2
    /\ servo_id = 0
    /\ TCNT1 = 0
    /\ frame.no = 1

\* C20: an invocation that leaves the cursor behind the last channel writes
\* SERVO_PWM_INTERVAL_TICKS to the compare register if the counter + 50 is below
\* it and the counter + 20 (mod 2^16) otherwise; the value differs from the
\* counter and is reached within SERVO_PWM_INTERVAL_TICKS ticks.
C20_FrameCompareAhead ==
    (ev.kind \in HandlerKinds /\ servo_id = servo_count)
      => /\ OCR1B = (IF TCNT1 + 50 < SERVO_PWM_INTERVAL_TICKS
                     THEN SERVO_PWM_INTERVAL_TICKS
                     ELSE (TCNT1 + 20) % TIMER1_MODULUS)
         /\ OCR1B # TCNT1
         /\ TicksToMatch(TCNT1, OCR1B) <= SERVO_PWM_INTERVAL_TICKS

ForegroundKinds == {"SERVO_Init", "SERVO_SetAngleByID", "SERVO_SetAngleByPin"}

\* C21: a handler invocation leaves servo_count and every channel's port, pin
\* and ticks as they are, and the three foreground calls leave the cursor as it
\* is.
C21_SingleWriter ==
    [][ /\ ev'.kind \in HandlerKinds => (servos' = servos /\ servo_count' = servo_count)
        /\ ev'.kind \in ForegroundKinds => servo_id' = servo_id ]_vars

\* channel 0 has just been given an angle while channel 1's pulse was in progress
C21_Witness ==
    /\ ev.kind = "SERVO_SetAngleByID"
    /\ ev.idOK /\ ev.angleOK
    /\ servo_count = 2
    /\ servo_id = 1
    /\ pinLevel[PinOf(1)] = HIGH
    /\ servos[0].ticks = AngleToTicks(180)
    /\ servos[1].ticks = AngleToTicks(180)

\* C22: servo_count never decreases and never exceeds SERVO_MAX_NUM; the port
\* and pin of a registered index never change; only SERVO_Init changes the
\* count, by one, and only the angle-set calls change a registered entry.
C22_AppendOnly ==
    [][ /\ servo_count' >= servo_count
        /\ servo_count' <= SERVO_MAX_NUM
        /\ servo_count' # servo_count
             => (ev'.kind = "SERVO_Init" /\ servo_count' = servo_count + 1)
        /\ \A i \in 0 .. servo_count - 1 :
             /\ servos'[i].port = servos[i].port
             /\ servos'[i].pin = servos[i].pin
             /\ servos'[i] # servos[i]
                  => ev'.kind \in {"SERVO_SetAngleByID", "SERVO_SetAngleByPin"} ]_vars

\* a registration has just been refused by the full registry, whose last
\* channel had been given an angle
C22_Witness ==
    /\ ev.kind = "SERVO_Init"
    /\ servo_count = SERVO_MAX_NUM
    /\ init_ret = INVALID_ID
    /\ servos[SERVO_MAX_NUM - 1].ticks > 0
    /\ frame.started

\* C24: before the first handler invocation the cursor is 0xFF; after it the
\* cursor is at most servo_count, which is at most SERVO_MAX_NUM; the channel an
\* invocation has lowered and the channel it has examined are registered ones.
C24_CursorBounds ==
    /\ ~frame.started => servo_id = 255
    /\ frame.started => (0 <= servo_id /\ servo_id <= servo_count)
    /\ servo_count <= SERVO_MAX_NUM
    /\ ev.kind = "pulse-end" => (servo_id >= 1 /\ servo_id - 1 < servo_count)
    /\ (ev.rose \/ (ev.kind \in HandlerKinds /\ ~ev.armed)) => servo_id < servo_count

\* a channel was registered in the idle gap: the cursor is below servo_count again
C24_Witness ==
    /\ ev.kind = "SERVO_Init"
    /\ frame.started
    /\ frame.gaps = 1
    /\ servo_count = 2
    /\ servo_id = 1

\* C25: once the cursor has come to stand behind the last channel, the next
\* handler invocation begins a new frame, also if a channel is registered in
\* between; and a frame in which no channel was skipped lasts
\* SERVO_PWM_INTERVAL_TICKS, with or without a registration.
C25_RegistrationKeepsFrame ==
    [][ /\ (frame.gaps >= 1 /\ ev'.kind \in HandlerKinds) => ev'.kind = "new-frame"
        /\ (ev'.kind = "new-frame" /\ \A i \in 0 .. SERVO_MAX_NUM - 1 : ~ev'.skipped[i])
             => ev'.len = SERVO_PWM_INTERVAL_TICKS ]_vars

AngleSetKinds == {"SERVO_SetAngleByID", "SERVO_SetAngleByPin"}

\* every valid angle is converted to at least SERVO_MIN_PULSE_TICKS
ValidAnglesAboveMin == \A t \in TicksTable : t[2] >= SERVO_MIN_PULSE_TICKS

\* C27: a new channel has ticks = 0; only a valid angle-set call changes a
\* channel's ticks, to at least SERVO_MIN_PULSE_TICKS; a ticks value above 0
\* never becomes 0 again; and the handler passes a channel without a pulse only
\* if its ticks is 0.
C27_ZeroOnlyUntilCommanded ==
    [][ /\ ValidAnglesAboveMin
        /\ servo_count' > servo_count => servos'[servo_count].ticks = 0
        /\ \A i \in 0 .. servo_count - 1 :
             /\ servos[i].ticks > 0 => servos'[i].ticks > 0
             /\ servos'[i].ticks # servos[i].ticks
                  => /\ ev'.kind \in AngleSetKinds /\ ev'.idOK /\ ev'.angleOK
                     /\ servos'[i].ticks >= SERVO_MIN_PULSE_TICKS
        /\ (ev'.kind \in HandlerKinds /\ servo_id' < servo_count /\ ~ev'.rose)
             => servos[servo_id'].ticks = 0 ]_vars

\* in the second frame, after channel 0's pulse, channel 0 has just been set to
\* 0 degrees; channel 1 has never been given an angle
C27_Witness ==
    /\ ev.kind \in AngleSetKinds
    /\ ev.idOK /\ ev.angleOK
    /\ servo_count = 2
    /\ frame.no = 2
    /\ frame.rises[0] = 1
    /\ frame.riseTicks = 0
    /\ servos[0].ticks = AngleToTicks(0)
    /\ servos[1].ticks = 0

\* the statement that increments servo_count finds the slot it publishes
\* complete: port and pin stored, ticks 0, the pin an output and LOW
PublishedComplete ==
    servo_count' = servo_count + 1
      => /\ servos[servo_count] = NewChannel(init_arg[1], init_arg[2])
         /\ servos'[servo_count] = servos[servo_count]
         /\ pinDir[init_arg] = "OUTPUT"
         /\ pinLevel[init_arg] = LOW
         /\ pinLevel'[init_arg] = LOW

\* the pin of the SERVO_Init call in progress is not the pin of a registered channel
NewPinUnregistered == \A i \in 0 .. servo_count - 1 : PinOf(i) # init_arg

\* every registered channel's pin is an output
RegisteredPinsAreOutputs ==
    \A i \in 0 .. servo_count - 1 : pinDir[PinOf(i)] = "OUTPUT"

\* C23 as stated: with the handler running between any two statements of
\* SERVO_Init, servo_count is incremented only when the new slot holds port, pin
\* and ticks = 0 and its pin is an output and LOW, and the pin of every index
\* below servo_count is an output.
C23_PublishAfterConstruct ==
    [][ PublishedComplete /\ RegisteredPinsAreOutputs' ]_vars

\* C23 amended: the same, the pin being LOW when the index is published
\* provided no registered channel uses the same pin.
C23_PublishAfterConstructNewPin ==
    [][ /\ NewPinUnregistered => PublishedComplete
        /\ servo_count' = servo_count + 1
             => /\ servos[servo_count] = NewChannel(init_arg[1], init_arg[2])
                /\ servos'[servo_count] = servos[servo_count]
                /\ pinDir[init_arg] = "OUTPUT"
        /\ RegisteredPinsAreOutputs' ]_vars

\* the handler has started a frame between two statements of the registration
\* of the second channel, whose port and pin are stored but not yet published
C23_Witness ==
    /\ init_pc = 158
    /\ servo_count = 1
    /\ NewPinUnregistered
    /\ frame.no = 2
    /\ servo_id = 0
    /\ pinLevel[PinOf(0)] = HIGH
    /\ servos[1] = NewChannel(init_arg[1], init_arg[2])

(* C26: once the handler is installed the scheduler never stops, whatever the
   registry holds and however the foreground calls interleave: a new frame
   always begins again, each new frame is followed by the end of a pulse slot
   (so the handler is invoked and frames begin infinitely often), and every
   channel whose ticks are above zero eventually gets its pin raised in its own
   slot *)
LiveChannels == 0 .. Cardinality(LivePins) - 1

Pulsed(i) == ev.rose /\ servo_id = i /\ pinLevel[PinOf(i)] = HIGH

C26_SchedulerNeverStops ==
    /\ callback ~> (ev.kind = "new-frame")
    /\ (ev.kind = "new-frame") ~> (ev.kind = "pulse-end")
    /\ \A i \in LiveChannels :
          (i < servo_count /\ servos[i].ticks > 0) ~> Pulsed(i)

\* channel 1 is pulsed in a frame in which channel 0, never commanded, was skipped
C26_Witness ==
    /\ servo_count = 2
    /\ servos[0].ticks = 0
    /\ ev.kind = "pulse-end"
    /\ Pulsed(1)

(* C28: every EXT_EEPROM and RTC operation that has issued a start condition
   issues a stop condition before it returns, on the success path and on every
   error return: when a call has returned, the bus is not in a transaction *)
Returned == i2c.pc = 0 /\ i2c.ret # "none"

C28_StopBeforeReturn == Returned => ~i2c.started

(* C30: when every I2C step succeeds, EXT_EEPROM_ReadArray performs exactly
   ArraySize reads, ArraySize - 1 of them acknowledged and the last one not,
   and stores only in DataArray[0 .. ArraySize-1], for every ArraySize
   including 0 and 1 *)
NoStepFailed == i2c.ret \in {"none", "SUCCESS"}

C30_ReadArrayCounts ==
    (i2c.op = "EXT_EEPROM_ReadArray" /\ NoStepFailed) =>
        /\ ~i2c.outside
        /\ i2c.acks + i2c.nacks <= i2c.size
        /\ (Returned /\ i2c.ret = "SUCCESS") =>
               /\ i2c.acks + i2c.nacks = i2c.size
               /\ i2c.nacks = (IF i2c.size > 0 THEN 1 ELSE 0)

(* C29: DHT11_Read always terminates with a status of 0, 1 or 2, whatever the
   sensor line does: a call in progress eventually returns, also when the
   sensor stops driving the line during the handshake or during a data bit *)
DhtReturned ==
    /\ dht.pc = 0
    /\ dht.returned
    /\ dht.status \in {DHT11_SUCCESS, DHT11_CHECKSUM_ERROR, DHT11_TIMEOUT_ERROR}

C29_ReadTerminates == (dht.pc # 0) ~> DhtReturned

====
